---- MODULE Spec2Model ----
(***************************************************************************)
(* Model of the CLT payroll calculation engine (src/src/lib/calculator.ts). *)
(*                                                                         *)
(* Every calculator is a pure function of its arguments.  The state is one *)
(* call of the engine: the operation, its arguments and, once the call has *)
(* returned, its result.  Init draws the call from bounded input sets and  *)
(* one action per exported function applies it.                            *)
(*                                                                         *)
(* Numbers.  The engine computes on JavaScript numbers.  The model         *)
(* computes on exact rationals, so every decimal literal of the source     *)
(* (0.075, 2666.68, 189.59, ...) is represented exactly and = on two       *)
(* amounts is equality of their values.  Binary rounding of the last bits  *)
(* of a double is outside the model.  A number is the mixed fraction       *)
(* [w |-> whole part, n |-> numerator, d |-> denominator], value w + n/d   *)
(* with 0 <= n < d and n/d in lowest terms, which is unique per value and  *)
(* keeps every component within TLC's 32-bit integers.  NaN is the one    *)
(* non-number value: arithmetic on it yields NaN and every comparison with *)
(* it is false.                                                            *)
(*                                                                         *)
(* The presentation layer (src/src/App.tsx) is a second specification,     *)
(* SpecApp: its state is the form state of App, its actions are the change *)
(* events of the form's inputs, and the arguments App passes to the engine *)
(* on a render are functions of that state; events counts the change       *)
(* events of the session.                                                  *)
(***************************************************************************)
EXTENDS Integers, FiniteSets, Sequences, TLC

VARIABLES pc, op, args, ret, app, events

vars == <<pc, op, args, ret, app, events>>

----------------------------------------------------------------------------
(* Exact arithmetic standing for the source's number operators.            *)

RECURSIVE GCD(_, _)
GCD(a, b) == IF b = 0 THEN a ELSE GCD(b, a % b)

\* w + n/d brought to the unique form: 0 <= n < d, lowest terms (d > 0).
Norm(w, n, d) ==
    LET r == n % d
        g == GCD(d, r)
    IN  [w |-> w + (n \div d), n |-> r \div g, d |-> d \div g]

\* The number n/d (d > 0).
Rat(n, d) == Norm(0, n, d)

\* An amount given in whole cents.
Cents(c) == Rat(c, 100)

Zero == Rat(0, 1)

\* NaN, the result of arithmetic on an Invalid Date or on non-numeric text.
NaN == [nan |-> TRUE]

IsNaN(a) == "nan" \in DOMAIN a

\* a + b
Add(a, b) ==
    IF IsNaN(a) \/ IsNaN(b) THEN NaN
    ELSE LET g == GCD(a.d, b.d)
             l == (a.d \div g) * b.d
         IN  Norm(a.w + b.w, a.n * (l \div a.d) + b.n * (l \div b.d), l)

\* -a
Neg(a) == IF IsNaN(a) THEN NaN ELSE Norm(-a.w, -a.n, a.d)

\* a - b
Sub(a, b) == Add(a, Neg(b))

\* a * b, term by term: (a.w + a.n/a.d) * (b.w + b.n/b.d)
Mul(a, b) ==
    IF IsNaN(a) \/ IsNaN(b) THEN NaN
    ELSE LET g1 == GCD(a.d, b.n)
             g2 == GCD(b.d, a.n)
         IN  Add(Add(Norm(a.w * b.w, a.w * b.n, b.d), Norm(0, b.w * a.n, a.d)),
                 Norm(0, (a.n \div g2) * (b.n \div g1),
                      (a.d \div g1) * (b.d \div g2)))

\* a / b for b > 0 (every divisor of the engine is a positive literal or a
\* caller-supplied positive number).
Div(a, b) ==
    IF IsNaN(a) \/ IsNaN(b) THEN NaN
    ELSE Mul(a, Norm(0, b.d, b.w * b.d + b.n))

\* a <= b
Le(a, b) ==
    /\ ~IsNaN(a) /\ ~IsNaN(b)
    /\ LET g == GCD(a.d, b.d)
       IN  \/ a.w < b.w
           \/ a.w = b.w /\ a.n * (b.d \div g) <= b.n * (a.d \div g)

\* a < b
Lt(a, b) == ~IsNaN(a) /\ ~IsNaN(b) /\ ~Le(b, a)

\* a >= b
Ge(a, b) == Le(b, a)

\* a === b
StrictEq(a, b) == ~IsNaN(a) /\ ~IsNaN(b) /\ a = b

\* Math.abs(a)
MathAbs(a) == IF IsNaN(a) THEN NaN ELSE IF a.w < 0 THEN Neg(a) ELSE a

\* Math.floor(a)
MathFloor(a) == IF IsNaN(a) THEN NaN ELSE Norm(a.w, 0, 1)

\* Math.ceil(a)
MathCeil(a) ==
    IF IsNaN(a) THEN NaN
    ELSE IF a.n = 0 THEN a ELSE Norm(a.w + 1, 0, 1)

\* Math.max(a, b)
MathMax(a, b) ==
    IF IsNaN(a) \/ IsNaN(b) THEN NaN ELSE IF Le(a, b) THEN b ELSE a

\* a % b for a >= 0 and b > 0 (the engine takes remainders of day and month
\* counts only)
Rem(a, b) ==
    IF IsNaN(a) \/ IsNaN(b) THEN NaN
    ELSE Sub(a, Mul(b, MathFloor(Div(a, b))))

\* A parameter with a default value: the argument when the caller passes it.
Arg(a, name, default) == IF name \in DOMAIN a THEN a[name] ELSE default

----------------------------------------------------------------------------
(* Date values.  A Date is its time value and its local calendar fields.   *)
(* Time is counted in hours from 2020-01-01 00:00 local time instead of    *)
(* milliseconds from the epoch (the engine only divides a difference of    *)
(* two times by the length of a day); the fields are numbers, NaN for an   *)
(* Invalid Date.                                                           *)

IsLeap(y) == (y % 4 = 0 /\ y % 100 # 0) \/ y % 400 = 0

DaysInYear(y) == IF IsLeap(y) THEN 366 ELSE 365

DaysInMonth(y, m) ==
    IF m = 2 THEN (IF IsLeap(y) THEN 29 ELSE 28)
    ELSE IF m \in {4, 6, 9, 11} THEN 30 ELSE 31

\* days from 2020-01-01 to the first day of year y (y >= 2020)
RECURSIVE DaysBeforeYear(_)
DaysBeforeYear(y) == IF y <= 2020 THEN 0 ELSE DaysBeforeYear(y - 1) + DaysInYear(y - 1)

\* days from the first day of year y to the first day of its month m
RECURSIVE DaysBeforeMonth(_, _)
DaysBeforeMonth(y, m) == IF m <= 1 THEN 0 ELSE DaysBeforeMonth(y, m - 1) + DaysInMonth(y, m - 1)

\* the day count of the calendar date y-m-d
DayNumber(y, m, d) == DaysBeforeYear(y) + DaysBeforeMonth(y, m) + d - 1

\* the year holding day n of year y onwards, and the day within it
RECURSIVE YearOfDay(_, _)
YearOfDay(n, y) == IF n < DaysInYear(y) THEN [year |-> y, rest |-> n] ELSE YearOfDay(n - DaysInYear(y), y + 1)

\* the month of year y holding its day n (counted from month m), and the day
RECURSIVE MonthOfDay(_, _, _)
MonthOfDay(n, y, m) == IF n < DaysInMonth(y, m) THEN [month |-> m, rest |-> n] ELSE MonthOfDay(n - DaysInMonth(y, m), y, m + 1)

\* The Date h hours after 2020-01-01 00:00 (h >= 0).
DateAt(h) ==
    LET yr == YearOfDay(h \div 24, 2020)
        mo == MonthOfDay(yr.rest, yr.year, 1)
    IN  [time |-> Rat(h, 1),
         year |-> Rat(yr.year, 1),
         month |-> Rat(mo.month - 1, 1),
         date |-> Rat(mo.rest + 1, 1)]

\* The Date of hour h of the calendar date y-m-d.
LocalDate(y, m, d, h) == DateAt(DayNumber(y, m, d) * 24 + h)

\* new Date(text) of a text that is no date
InvalidDate == [time |-> NaN, year |-> NaN, month |-> NaN, date |-> NaN]

getTime(date) == date.time
getFullYear(date) == date.year
\* getMonth() counts months from 0
getMonth(date) == date.month
getDate(date) == date.date

----------------------------------------------------------------------------
(* The two progressive tables.                                             *)

\* Variant of calculateINSS with exclusive upper bounds (< for <=): a base on
\* a tier edge is priced by the next tier.
calculateINSS_exclusive(salary) ==
    IF Lt(salary, Rat(1412, 1))
    THEN Mul(salary, Rat(75, 1000))
    ELSE IF Lt(salary, Rat(266668, 100))
    THEN Add(Mul(Sub(salary, Rat(1412, 1)), Rat(9, 100)), Rat(1059, 10))
    ELSE IF Lt(salary, Rat(400003, 100))
    THEN Add(Add(Mul(Sub(salary, Rat(266668, 100)), Rat(12, 100)),
                 Rat(1059, 10)), Rat(11292, 100))
    ELSE IF Lt(salary, Rat(778602, 100))
    THEN Add(Add(Add(Mul(Sub(salary, Rat(400003, 100)), Rat(14, 100)),
                     Rat(1059, 10)), Rat(11292, 100)), Rat(16000, 100))
    ELSE Rat(90885, 100)

\* calculateINSS(salary), calculator.ts:29-35
calculateINSS(salary) ==
    IF Le(salary, Rat(1412, 1))
    THEN Mul(salary, Rat(75, 1000))
    ELSE IF Le(salary, Rat(266668, 100))
    THEN Add(Mul(Sub(salary, Rat(1412, 1)), Rat(9, 100)), Rat(1059, 10))
    ELSE IF Le(salary, Rat(400003, 100))
    THEN Add(Add(Mul(Sub(salary, Rat(266668, 100)), Rat(12, 100)),
                 Rat(1059, 10)), Rat(11292, 100))
    ELSE IF Le(salary, Rat(778602, 100))
    THEN Add(Add(Add(Mul(Sub(salary, Rat(400003, 100)), Rat(14, 100)),
                     Rat(1059, 10)), Rat(11292, 100)), Rat(16000, 100))
    ELSE Rat(90885, 100)

\* Variant of calculateIRRF that forgets the allowance per dependent.
calculateIRRF_noAllowance(salary, inss, dependents) ==
    LET base == Sub(salary, inss)
    IN  IF Le(base, Rat(225920, 100)) THEN Zero
        ELSE IF Le(base, Rat(282665, 100))
        THEN Sub(Mul(base, Rat(75, 1000)), Rat(16944, 100))
        ELSE IF Le(base, Rat(375105, 100))
        THEN Sub(Mul(base, Rat(15, 100)), Rat(38144, 100))
        ELSE IF Le(base, Rat(466468, 100))
        THEN Sub(Mul(base, Rat(225, 1000)), Rat(66277, 100))
        ELSE Sub(Mul(base, Rat(275, 1000)), Rat(89600, 100))

\* Variant of calculateIRRF with exclusive upper bounds (< for <=).
calculateIRRF_exclusive(salary, inss, dependents) ==
    LET base == Sub(Sub(salary, inss), Mul(Rat(dependents, 1), Rat(18959, 100)))
    IN  IF Lt(base, Rat(225920, 100)) THEN Zero
        ELSE IF Lt(base, Rat(282665, 100))
        THEN Sub(Mul(base, Rat(75, 1000)), Rat(16944, 100))
        ELSE IF Lt(base, Rat(375105, 100))
        THEN Sub(Mul(base, Rat(15, 100)), Rat(38144, 100))
        ELSE IF Lt(base, Rat(466468, 100))
        THEN Sub(Mul(base, Rat(225, 1000)), Rat(66277, 100))
        ELSE Sub(Mul(base, Rat(275, 1000)), Rat(89600, 100))

\* Variant of calculateIRRF whose exemption ends at 2000.00: the 7.5% tier
\* starts below the base at which its formula reaches zero.
calculateIRRF_lowExemption(salary, inss, dependents) ==
    LET base == Sub(Sub(salary, inss), Mul(Rat(dependents, 1), Rat(18959, 100)))
    IN  IF Le(base, Rat(200000, 100)) THEN Zero
        ELSE IF Le(base, Rat(282665, 100))
        THEN Sub(Mul(base, Rat(75, 1000)), Rat(16944, 100))
        ELSE IF Le(base, Rat(375105, 100))
        THEN Sub(Mul(base, Rat(15, 100)), Rat(38144, 100))
        ELSE IF Le(base, Rat(466468, 100))
        THEN Sub(Mul(base, Rat(225, 1000)), Rat(66277, 100))
        ELSE Sub(Mul(base, Rat(275, 1000)), Rat(89600, 100))

\* Variant of calculateIRRF whose top tier forgets its deduction of 896.00.
calculateIRRF_topTierUndeducted(salary, inss, dependents) ==
    LET base == Sub(Sub(salary, inss), Mul(Rat(dependents, 1), Rat(18959, 100)))
    IN  IF Le(base, Rat(225920, 100)) THEN Zero
        ELSE IF Le(base, Rat(282665, 100))
        THEN Sub(Mul(base, Rat(75, 1000)), Rat(16944, 100))
        ELSE IF Le(base, Rat(375105, 100))
        THEN Sub(Mul(base, Rat(15, 100)), Rat(38144, 100))
        ELSE IF Le(base, Rat(466468, 100))
        THEN Sub(Mul(base, Rat(225, 1000)), Rat(66277, 100))
        ELSE Mul(base, Rat(275, 1000))

\* calculateIRRF(salary, inss, dependents = 0), calculator.ts:38-45
calculateIRRF(salary, inss, dependents) ==
    LET base == Sub(Sub(salary, inss), Mul(Rat(dependents, 1), Rat(18959, 100)))
    IN  IF Le(base, Rat(225920, 100)) THEN Zero
        ELSE IF Le(base, Rat(282665, 100))
        THEN Sub(Mul(base, Rat(75, 1000)), Rat(16944, 100))
        ELSE IF Le(base, Rat(375105, 100))
        THEN Sub(Mul(base, Rat(15, 100)), Rat(38144, 100))
        ELSE IF Le(base, Rat(466468, 100))
        THEN Sub(Mul(base, Rat(225, 1000)), Rat(66277, 100))
        ELSE Sub(Mul(base, Rat(275, 1000)), Rat(89600, 100))

----------------------------------------------------------------------------
(* The settlement calculators.                                             *)

\* Variant of calculateSalary whose net pay forgets the other discounts.
calculateSalary_netKeepsDiscounts(grossSalary, dependents, otherDiscounts) ==
    LET inss == calculateINSS(grossSalary)
        irrf == calculateIRRF(grossSalary, inss, dependents)
        fgts == Mul(grossSalary, Rat(8, 100))
        netSalary == Sub(Sub(grossSalary, inss), irrf)
    IN  [grossSalary |-> grossSalary,
         inss |-> inss,
         irrf |-> irrf,
         netSalary |-> netSalary,
         fgts |-> fgts,
         discounts |-> Add(Add(inss, irrf), otherDiscounts)]

\* calculateSalary(grossSalary, dependents = 0, otherDiscounts = 0),
\* calculator.ts:47-61
calculateSalary(grossSalary, dependents, otherDiscounts) ==
    LET inss == calculateINSS(grossSalary)
        irrf == calculateIRRF(grossSalary, inss, dependents)
        fgts == Mul(grossSalary, Rat(8, 100))
        netSalary == Sub(Sub(Sub(grossSalary, inss), irrf), otherDiscounts)
    IN  [grossSalary |-> grossSalary,
         inss |-> inss,
         irrf |-> irrf,
         netSalary |-> netSalary,
         fgts |-> fgts,
         discounts |-> Add(Add(inss, irrf), otherDiscounts)]

\* Variant of calculateVacation that taxes the unused-vacation payout with the
\* current period.
calculateVacation_taxesUnused(salary, days, sellTenDays, dependents, unusedVacationDays, bonuses) ==
    LET baseForVacation == Add(salary, bonuses)
        dailyRate == Div(baseForVacation, Rat(30, 1))
        vacationValue == Mul(dailyRate, days)
        oneThirdBonus == Div(vacationValue, Rat(3, 1))
        unusedVacationValue == Mul(dailyRate, unusedVacationDays)
        unusedVacationOneThird == Div(unusedVacationValue, Rat(3, 1))
        abonoPecuniario ==
            IF sellTenDays THEN Mul(dailyRate, Rat(10, 1)) ELSE Zero
        abonoOneThird ==
            IF sellTenDays THEN Div(abonoPecuniario, Rat(3, 1)) ELSE Zero
        currentGross == Add(vacationValue, oneThirdBonus)
        taxed == Add(Add(currentGross, unusedVacationValue), unusedVacationOneThird)
        inss == calculateINSS(taxed)
        irrf == calculateIRRF(taxed, inss, dependents)
    IN  [baseSalary |-> baseForVacation,
         vacationValue |-> Add(vacationValue, unusedVacationValue),
         oneThirdBonus |-> Add(oneThirdBonus, unusedVacationOneThird),
         grossTotal |->
            Add(Add(Add(Add(currentGross, unusedVacationValue),
                        unusedVacationOneThird), abonoPecuniario), abonoOneThird),
         inss |-> inss,
         irrf |-> irrf,
         netTotal |->
            Add(Add(Add(Add(Sub(Sub(currentGross, inss), irrf),
                            unusedVacationValue), unusedVacationOneThird),
                    abonoPecuniario), abonoOneThird),
         abonoPecuniario |-> abonoPecuniario,
         abonoOneThird |-> abonoOneThird]

\* Variant of calculateVacation that sizes the sold-days allowance from the
\* days taken (a third of them) instead of a fixed 10 days.
calculateVacation_abonoFromDays(salary, days, sellTenDays, dependents, unusedVacationDays, bonuses) ==
    LET baseForVacation == Add(salary, bonuses)
        dailyRate == Div(baseForVacation, Rat(30, 1))
        vacationValue == Mul(dailyRate, days)
        oneThirdBonus == Div(vacationValue, Rat(3, 1))
        unusedVacationValue == Mul(dailyRate, unusedVacationDays)
        unusedVacationOneThird == Div(unusedVacationValue, Rat(3, 1))
        abonoPecuniario ==
            IF sellTenDays THEN Div(vacationValue, Rat(3, 1)) ELSE Zero
        abonoOneThird ==
            IF sellTenDays THEN Div(abonoPecuniario, Rat(3, 1)) ELSE Zero
        currentGross == Add(vacationValue, oneThirdBonus)
        inss == calculateINSS(currentGross)
        irrf == calculateIRRF(currentGross, inss, dependents)
    IN  [baseSalary |-> baseForVacation,
         vacationValue |-> Add(vacationValue, unusedVacationValue),
         oneThirdBonus |-> Add(oneThirdBonus, unusedVacationOneThird),
         grossTotal |->
            Add(Add(Add(Add(currentGross, unusedVacationValue),
                        unusedVacationOneThird), abonoPecuniario), abonoOneThird),
         inss |-> inss,
         irrf |-> irrf,
         netTotal |->
            Add(Add(Add(Add(Sub(Sub(currentGross, inss), irrf),
                            unusedVacationValue), unusedVacationOneThird),
                    abonoPecuniario), abonoOneThird),
         abonoPecuniario |-> abonoPecuniario,
         abonoOneThird |-> abonoOneThird]

\* calculateVacation(salary, days = 30, sellTenDays = false, dependents = 0,
\* unusedVacationDays = 0, bonuses = 0), calculator.ts:63-105
calculateVacation(salary, days, sellTenDays, dependents, unusedVacationDays, bonuses) ==
    LET baseForVacation == Add(salary, bonuses)
        dailyRate == Div(baseForVacation, Rat(30, 1))
        vacationValue == Mul(dailyRate, days)
        oneThirdBonus == Div(vacationValue, Rat(3, 1))
        unusedVacationValue == Mul(dailyRate, unusedVacationDays)
        unusedVacationOneThird == Div(unusedVacationValue, Rat(3, 1))
        abonoPecuniario ==
            IF sellTenDays THEN Mul(dailyRate, Rat(10, 1)) ELSE Zero
        abonoOneThird ==
            IF sellTenDays THEN Div(abonoPecuniario, Rat(3, 1)) ELSE Zero
        currentGross == Add(vacationValue, oneThirdBonus)
        inss == calculateINSS(currentGross)
        irrf == calculateIRRF(currentGross, inss, dependents)
    IN  [baseSalary |-> baseForVacation,
         vacationValue |-> Add(vacationValue, unusedVacationValue),
         oneThirdBonus |-> Add(oneThirdBonus, unusedVacationOneThird),
         grossTotal |->
            Add(Add(Add(Add(currentGross, unusedVacationValue),
                        unusedVacationOneThird), abonoPecuniario), abonoOneThird),
         inss |-> inss,
         irrf |-> irrf,
         netTotal |->
            Add(Add(Add(Add(Sub(Sub(currentGross, inss), irrf),
                            unusedVacationValue), unusedVacationOneThird),
                    abonoPecuniario), abonoOneThird),
         abonoPecuniario |-> abonoPecuniario,
         abonoOneThird |-> abonoOneThird]

\* Variant of calculateOvertime that pays the surcharge alone (percentage/100
\* of the hourly rate instead of 1 + percentage/100).
calculateOvertime_surchargeOnly(salary, monthlyHours, overtimeHours, percentage) ==
    LET hourlyRate == Div(salary, monthlyHours)
        overtimeRate == Mul(hourlyRate, Div(percentage, Rat(100, 1)))
        overtimeValue == Mul(overtimeRate, overtimeHours)
    IN  [hourlyRate |-> hourlyRate,
         overtimeValue |-> overtimeValue,
         totalValue |-> overtimeValue]

\* calculateOvertime(salary, monthlyHours, overtimeHours, percentage = 50),
\* calculator.ts:107-122
calculateOvertime(salary, monthlyHours, overtimeHours, percentage) ==
    LET hourlyRate == Div(salary, monthlyHours)
        overtimeRate ==
            Mul(hourlyRate, Add(Rat(1, 1), Div(percentage, Rat(100, 1))))
        overtimeValue == Mul(overtimeRate, overtimeHours)
    IN  [hourlyRate |-> hourlyRate,
         overtimeValue |-> overtimeValue,
         totalValue |-> overtimeValue]

\* Variant of thirteenthMonths without the final Math.max(0, ...).
thirteenthMonths_unclamped(startDate, endDate) ==
    LET endDay == getDate(endDate)
        endMonth == Add(getMonth(endDate), Rat(1, 1))
        startMonth == Add(getMonth(startDate), Rat(1, 1))
        startDay == getDate(startDate)
        between == Sub(endMonth, startMonth)
        started == IF Le(startDay, Rat(15, 1)) THEN Add(between, Rat(1, 1)) ELSE between
        ended == IF Lt(endDay, Rat(15, 1)) THEN Sub(started, Rat(1, 1)) ELSE started
    IN  IF StrictEq(getFullYear(endDate), getFullYear(startDate))
        THEN ended
        ELSE IF Ge(endDay, Rat(15, 1)) THEN endMonth ELSE Sub(endMonth, Rat(1, 1))

\* Variant of thirteenthMonths that counts the starting month only when the
\* start day is before the 15th.
thirteenthMonths_startBefore15(startDate, endDate) ==
    LET endDay == getDate(endDate)
        endMonth == Add(getMonth(endDate), Rat(1, 1))
        startMonth == Add(getMonth(startDate), Rat(1, 1))
        startDay == getDate(startDate)
        between == Sub(endMonth, startMonth)
        started == IF Lt(startDay, Rat(15, 1)) THEN Add(between, Rat(1, 1)) ELSE between
        ended == IF Lt(endDay, Rat(15, 1)) THEN Sub(started, Rat(1, 1)) ELSE started
        counted ==
            IF StrictEq(getFullYear(endDate), getFullYear(startDate))
            THEN ended
            ELSE IF Ge(endDay, Rat(15, 1)) THEN endMonth ELSE Sub(endMonth, Rat(1, 1))
    IN  MathMax(Zero, counted)

\* The 13th-salary month count of calculateTermination, calculator.ts:159-173
thirteenthMonths(startDate, endDate) ==
    LET endDay == getDate(endDate)
        endMonth == Add(getMonth(endDate), Rat(1, 1))
        startMonth == Add(getMonth(startDate), Rat(1, 1))
        startDay == getDate(startDate)
        between == Sub(endMonth, startMonth)
        started == IF Le(startDay, Rat(15, 1)) THEN Add(between, Rat(1, 1)) ELSE between
        ended == IF Lt(endDay, Rat(15, 1)) THEN Sub(started, Rat(1, 1)) ELSE started
        counted ==
            IF StrictEq(getFullYear(endDate), getFullYear(startDate))
            THEN ended
            ELSE IF Ge(endDay, Rat(15, 1)) THEN endMonth ELSE Sub(endMonth, Rat(1, 1))
    IN  MathMax(Zero, counted)

\* Variant of finalVacationMonths that takes the signed difference of the two
\* dates (no Math.abs).
finalVacationMonths_signed(startDate, endDate) ==
    LET diffTime == Sub(getTime(endDate), getTime(startDate))
        diffDaysTotal == MathCeil(Div(diffTime, Rat(24, 1)))
        vacationMonths == MathFloor(Div(diffDaysTotal, Rat(30, 1)))
        remainingDays == Rem(diffDaysTotal, Rat(30, 1))
    IN  IF Ge(remainingDays, Rat(15, 1)) THEN Add(vacationMonths, Rat(1, 1)) ELSE vacationMonths

\* The proportional-vacation month count of calculateTermination before its
\* reduction modulo 12, calculator.ts:150-151 and 178-180
finalVacationMonths(startDate, endDate) ==
    LET diffTime == MathAbs(Sub(getTime(endDate), getTime(startDate)))
        diffDaysTotal == MathCeil(Div(diffTime, Rat(24, 1)))
        vacationMonths == MathFloor(Div(diffDaysTotal, Rat(30, 1)))
        remainingDays == Rem(diffDaysTotal, Rat(30, 1))
    IN  IF Ge(remainingDays, Rat(15, 1)) THEN Add(vacationMonths, Rat(1, 1)) ELSE vacationMonths

\* Variant of terminationIndemnities in which a mutual agreement pays the full
\* 40% penalty.
terminationIndemnities_fullFine(type, baseSalary, fgtsBalance) ==
    IF type = "sem-justa-causa"
    THEN [noticePeriod |-> baseSalary, fgtsFine |-> Mul(fgtsBalance, Rat(4, 10))]
    ELSE IF type = "comum-acordo"
    THEN [noticePeriod |-> Mul(baseSalary, Rat(5, 10)), fgtsFine |-> Mul(fgtsBalance, Rat(4, 10))]
    ELSE [noticePeriod |-> Zero, fgtsFine |-> Zero]

\* The notice period and fund penalty of calculateTermination by type,
\* calculator.ts:189-198
terminationIndemnities(type, baseSalary, fgtsBalance) ==
    IF type = "sem-justa-causa"
    THEN [noticePeriod |-> baseSalary, fgtsFine |-> Mul(fgtsBalance, Rat(4, 10))]
    ELSE IF type = "comum-acordo"
    THEN [noticePeriod |-> Mul(baseSalary, Rat(5, 10)), fgtsFine |-> Mul(fgtsBalance, Rat(2, 10))]
    ELSE [noticePeriod |-> Zero, fgtsFine |-> Zero]

\* Variant of calculateTermination that taxes the indemnified notice period with
\* the salary balance and the 13th salary.
calculateTermination_taxesNotice(salary, startDate, endDate, type, fgtsBalance, unusedVacationDays, bonuses) ==
    LET baseSalary == Add(salary, bonuses)
        endDay == getDate(endDate)
        salaryBalance == Mul(Div(baseSalary, Rat(30, 1)), endDay)
        proportionalThirteenth ==
            Mul(Div(baseSalary, Rat(12, 1)), thirteenthMonths(startDate, endDate))
        proportionalVacation ==
            Mul(Div(baseSalary, Rat(12, 1)),
                Rem(finalVacationMonths(startDate, endDate), Rat(12, 1)))
        vacationOneThird == Div(proportionalVacation, Rat(3, 1))
        unusedVacationValue == Mul(Div(baseSalary, Rat(30, 1)), unusedVacationDays)
        unusedVacationOneThird == Div(unusedVacationValue, Rat(3, 1))
        indemnities == terminationIndemnities(type, baseSalary, fgtsBalance)
        noticePeriod == indemnities.noticePeriod
        fgtsFine == indemnities.fgtsFine
        grossTotal ==
            Add(Add(Add(Add(Add(Add(Add(salaryBalance, proportionalThirteenth),
                                    proportionalVacation), vacationOneThird),
                            unusedVacationValue), unusedVacationOneThird),
                    noticePeriod), fgtsFine)
        taxableAmount == Add(Add(salaryBalance, proportionalThirteenth), noticePeriod)
        inss == calculateINSS(taxableAmount)
        irrf == calculateIRRF(taxableAmount, inss, 0)
    IN  [salaryBalance |-> salaryBalance,
         proportionalThirteenth |-> proportionalThirteenth,
         proportionalVacation |-> Add(proportionalVacation, unusedVacationValue),
         vacationOneThird |-> Add(vacationOneThird, unusedVacationOneThird),
         noticePeriod |-> noticePeriod,
         fgtsFine |-> fgtsFine,
         grossTotal |-> grossTotal,
         inss |-> inss,
         irrf |-> irrf,
         netTotal |-> Sub(Sub(grossTotal, inss), irrf)]

\* Variant of calculateTermination whose grossTotal leaves out the third on the
\* unused-vacation payout.
calculateTermination_grossDropsUnusedThird(salary, startDate, endDate, type, fgtsBalance, unusedVacationDays, bonuses) ==
    LET baseSalary == Add(salary, bonuses)
        endDay == getDate(endDate)
        salaryBalance == Mul(Div(baseSalary, Rat(30, 1)), endDay)
        proportionalThirteenth ==
            Mul(Div(baseSalary, Rat(12, 1)), thirteenthMonths(startDate, endDate))
        proportionalVacation ==
            Mul(Div(baseSalary, Rat(12, 1)),
                Rem(finalVacationMonths(startDate, endDate), Rat(12, 1)))
        vacationOneThird == Div(proportionalVacation, Rat(3, 1))
        unusedVacationValue == Mul(Div(baseSalary, Rat(30, 1)), unusedVacationDays)
        unusedVacationOneThird == Div(unusedVacationValue, Rat(3, 1))
        indemnities == terminationIndemnities(type, baseSalary, fgtsBalance)
        noticePeriod == indemnities.noticePeriod
        fgtsFine == indemnities.fgtsFine
        grossTotal ==
            Add(Add(Add(Add(Add(Add(Add(salaryBalance, proportionalThirteenth),
                                    proportionalVacation), vacationOneThird),
                            unusedVacationValue), Zero),
                    noticePeriod), fgtsFine)
        taxableAmount == Add(salaryBalance, proportionalThirteenth)
        inss == calculateINSS(taxableAmount)
        irrf == calculateIRRF(taxableAmount, inss, 0)
    IN  [salaryBalance |-> salaryBalance,
         proportionalThirteenth |-> proportionalThirteenth,
         proportionalVacation |-> Add(proportionalVacation, unusedVacationValue),
         vacationOneThird |-> Add(vacationOneThird, unusedVacationOneThird),
         noticePeriod |-> noticePeriod,
         fgtsFine |-> fgtsFine,
         grossTotal |-> grossTotal,
         inss |-> inss,
         irrf |-> irrf,
         netTotal |-> Sub(Sub(grossTotal, inss), irrf)]

\* calculateTermination(salary, startDate, endDate, type, fgtsBalance = 0,
\* unusedVacationDays = 0, bonuses = 0), calculator.ts:139-218
calculateTermination(salary, startDate, endDate, type, fgtsBalance, unusedVacationDays, bonuses) ==
    LET baseSalary == Add(salary, bonuses)
        endDay == getDate(endDate)
        salaryBalance == Mul(Div(baseSalary, Rat(30, 1)), endDay)
        proportionalThirteenth ==
            Mul(Div(baseSalary, Rat(12, 1)), thirteenthMonths(startDate, endDate))
        proportionalVacation ==
            Mul(Div(baseSalary, Rat(12, 1)),
                Rem(finalVacationMonths(startDate, endDate), Rat(12, 1)))
        vacationOneThird == Div(proportionalVacation, Rat(3, 1))
        unusedVacationValue == Mul(Div(baseSalary, Rat(30, 1)), unusedVacationDays)
        unusedVacationOneThird == Div(unusedVacationValue, Rat(3, 1))
        indemnities == terminationIndemnities(type, baseSalary, fgtsBalance)
        noticePeriod == indemnities.noticePeriod
        fgtsFine == indemnities.fgtsFine
        grossTotal ==
            Add(Add(Add(Add(Add(Add(Add(salaryBalance, proportionalThirteenth),
                                    proportionalVacation), vacationOneThird),
                            unusedVacationValue), unusedVacationOneThird),
                    noticePeriod), fgtsFine)
        taxableAmount == Add(salaryBalance, proportionalThirteenth)
        inss == calculateINSS(taxableAmount)
        irrf == calculateIRRF(taxableAmount, inss, 0)
    IN  [salaryBalance |-> salaryBalance,
         proportionalThirteenth |-> proportionalThirteenth,
         proportionalVacation |-> Add(proportionalVacation, unusedVacationValue),
         vacationOneThird |-> Add(vacationOneThird, unusedVacationOneThird),
         noticePeriod |-> noticePeriod,
         fgtsFine |-> fgtsFine,
         grossTotal |-> grossTotal,
         inss |-> inss,
         irrf |-> irrf,
         netTotal |-> Sub(Sub(grossTotal, inss), irrf)]

----------------------------------------------------------------------------
(* Bounds of the input sets.                                               *)

\* Bases are taken up to Near cents on either side of every tier edge.
Near == 2
\* ... and on a grid of 250.00 steps, 0 .. GridMax * 250.00.
GridMax == 40
MaxDependents == 3

INSSEdges == {141200, 266668, 400003, 778602}
IRRFEdges == {225920, 282665, 375105, 466468}

Grid == {k * 25000 : k \in 0 .. GridMax}

\* bases of calculateINSS, in cents
INSSBases ==
    {e + x : e \in INSSEdges, x \in -Near .. Near} \cup Grid \cup {10000000}

\* contribution amounts handed to calculateIRRF, in cents
INSSAmounts == {0, 10590, 90885}

\* salaries of calculateIRRF, in cents: those that put the taxable base
\* within Near cents of a tier edge, and the grid
IRRFSalaries ==
    {e + 18959 * k + i + x :
        e \in IRRFEdges, k \in {0, MaxDependents}, i \in INSSAmounts,
        x \in -Near .. Near}
    \cup Grid

\* The last gross salary, in cents, whose taxable base (gross - calculateINSS
\* - dependents * 189.59) is still within each income-tax tier, for 0 to 3
\* dependents: one cent more and calculateSalary is taxed by the next tier.
SalaryTaxEdges ==
    {245936, 309712, 415100, 521336,
     266773, 331256, 437146, 543382,
     288318, 352800, 459191, 565427,
     309862, 374345, 481236, 587472}

\* gross salaries of calculateSalary, in cents: around the contribution
\* edges, around the income-tax edges, and the grid
SalaryGross ==
    {e + x : e \in INSSEdges \cup SalaryTaxEdges, x \in -Near .. Near} \cup Grid

\* other discounts of calculateSalary, in cents
OtherDiscounts == {0, 12345, 300000}

\* Vacation amounts are in whole currency units, or in cents below the taxed
\* range, which keeps every exact fraction of the call (thirtieths, thirds
\* and the table rates) within TLC's 32-bit integers.
VacationSalaries == {Rat(0, 1), Cents(123456), Rat(1412, 1), Rat(3000, 1),
                     Rat(5000, 1), Rat(7786, 1), Rat(12000, 1)}
VacationBonuses == {Rat(0, 1), Rat(500, 1)}
\* days of rest taken: the range input of the form offers 1 .. 30
VacationDays == {1, 7, 10, 15, 20, 29, 30}
MaxUnusedDays == 2
UnusedDays == (0 .. MaxUnusedDays) \cup {15}

OvertimeSalaries == {Cents(0), Cents(141200), Cents(300000), Cents(778602)}
MonthlyHours == {Rat(1, 1), Rat(44, 1), Rat(180, 1), Rat(220, 1), Rat(441, 2)}
MaxOvertimeHours == 10
OvertimeHours == {Rat(h, 1) : h \in 0 .. MaxOvertimeHours} \cup {Rat(5, 2)}
Percentages == {Rat(0, 1), Rat(50, 1), Rat(60, 1), Rat(100, 1)}

TerminationTypes == {"sem-justa-causa", "com-justa-causa", "pedido-demissao", "comum-acordo"}

\* Calendar days <<month, day>> and years of the employment dates, at 00:00,
\* and one date each within a day, so that elapsed time is no whole number
\* of days.
StartDays == {<<1, 1>>, <<1, 15>>, <<1, 16>>, <<6, 16>>, <<12, 31>>}
EndDays == {<<1, 1>>, <<1, 14>>, <<1, 15>>, <<3, 31>>, <<6, 15>>, <<12, 14>>, <<12, 31>>}
FirstYear == 2022
Years == FirstYear .. FirstYear + 1
StartDates ==
    {LocalDate(y, md[1], md[2], 0) : y \in Years, md \in StartDays}
    \cup {LocalDate(FirstYear + 1, 3, 10, 12)}
EndDates ==
    {LocalDate(y, md[1], md[2], 0) : y \in Years, md \in EndDays}
    \cup {LocalDate(FirstYear + 1, 6, 20, 6)}

TerminationSalaries == {Rat(3000, 1), Cents(250050)}
TerminationBonuses == {Rat(0, 1), Rat(500, 1)}
FgtsBalances == {Rat(0, 1), Rat(5000, 1)}
TerminationUnusedDays == {Rat(0, 1), Rat(10, 1)}

NoRet == [none |-> TRUE]

\* No App is mounted while the engine is called directly.
NoApp == [none |-> TRUE]

INSSCalls == {[salary |-> Cents(b)] : b \in INSSBases}

IRRFCalls ==
    {[salary |-> Cents(s), inss |-> Cents(i), dependents |-> k] :
        s \in IRRFSalaries, i \in INSSAmounts, k \in 0 .. MaxDependents}
    \cup {[salary |-> Cents(s), inss |-> Cents(i)] :
        s \in IRRFSalaries, i \in INSSAmounts}

SalaryCalls ==
    {[grossSalary |-> Cents(g), dependents |-> k, otherDiscounts |-> Cents(o)] :
        g \in SalaryGross, k \in 0 .. MaxDependents, o \in OtherDiscounts}
    \cup {[grossSalary |-> Cents(g), dependents |-> k] :
        g \in SalaryGross, k \in 0 .. MaxDependents}
    \cup {[grossSalary |-> Cents(g)] : g \in SalaryGross}

VacationCalls ==
    {[salary |-> s, days |-> Rat(n, 1), sellTenDays |-> b, dependents |-> k,
      unusedVacationDays |-> Rat(u, 1), bonuses |-> x] :
        s \in VacationSalaries, n \in VacationDays, b \in BOOLEAN,
        k \in {0, MaxDependents}, u \in UnusedDays, x \in VacationBonuses}
    \cup {[salary |-> s, days |-> Rat(n, 1), sellTenDays |-> b] :
        s \in VacationSalaries, n \in VacationDays, b \in BOOLEAN}
    \cup {[salary |-> s] : s \in VacationSalaries}

OvertimeCalls ==
    {[salary |-> s, monthlyHours |-> m, overtimeHours |-> h, percentage |-> p] :
        s \in OvertimeSalaries, m \in MonthlyHours, h \in OvertimeHours,
        p \in Percentages}
    \cup {[salary |-> s, monthlyHours |-> m, overtimeHours |-> h] :
        s \in OvertimeSalaries, m \in MonthlyHours, h \in OvertimeHours}

TerminationCalls ==
    {[salary |-> s, startDate |-> a, endDate |-> b, type |-> t, fgtsBalance |-> f,
      unusedVacationDays |-> u, bonuses |-> x] :
        s \in TerminationSalaries, a \in StartDates, b \in EndDates,
        t \in TerminationTypes, f \in FgtsBalances, u \in TerminationUnusedDays,
        x \in TerminationBonuses}
    \cup {[salary |-> s, startDate |-> a, endDate |-> b, type |-> t] :
        s \in TerminationSalaries, a \in StartDates, b \in EndDates,
        t \in TerminationTypes}

Calls(o) ==
    CASE o = "calculateINSS" -> INSSCalls
      [] o = "calculateIRRF" -> IRRFCalls
      [] o = "calculateSalary" -> SalaryCalls
      [] o = "calculateVacation" -> VacationCalls
      [] o = "calculateOvertime" -> OvertimeCalls
      [] o = "calculateTermination" -> TerminationCalls

Ops == {"calculateINSS", "calculateIRRF", "calculateSalary",
        "calculateVacation", "calculateOvertime", "calculateTermination"}

----------------------------------------------------------------------------
Init ==
    /\ pc = "call"
    /\ op \in Ops
    /\ args \in Calls(op)
    /\ ret = NoRet
    /\ app = NoApp
    /\ events = 0

CallINSS ==
    /\ pc = "call" /\ op = "calculateINSS"
    /\ ret' = calculateINSS(args.salary)
    /\ pc' = "done"
    /\ UNCHANGED <<op, args, app, events>>

CallIRRF ==
    /\ pc = "call" /\ op = "calculateIRRF"
    /\ ret' = calculateIRRF(args.salary, args.inss, Arg(args, "dependents", 0))
    /\ pc' = "done"
    /\ UNCHANGED <<op, args, app, events>>

CallSalary ==
    /\ pc = "call" /\ op = "calculateSalary"
    /\ ret' = calculateSalary(args.grossSalary, Arg(args, "dependents", 0),
                              Arg(args, "otherDiscounts", Zero))
    /\ pc' = "done"
    /\ UNCHANGED <<op, args, app, events>>

CallVacation ==
    /\ pc = "call" /\ op = "calculateVacation"
    /\ ret' = calculateVacation(args.salary, Arg(args, "days", Rat(30, 1)),
                                Arg(args, "sellTenDays", FALSE),
                                Arg(args, "dependents", 0),
                                Arg(args, "unusedVacationDays", Zero),
                                Arg(args, "bonuses", Zero))
    /\ pc' = "done"
    /\ UNCHANGED <<op, args, app, events>>

CallOvertime ==
    /\ pc = "call" /\ op = "calculateOvertime"
    /\ ret' = calculateOvertime(args.salary, args.monthlyHours,
                                args.overtimeHours,
                                Arg(args, "percentage", Rat(50, 1)))
    /\ pc' = "done"
    /\ UNCHANGED <<op, args, app, events>>

CallTermination ==
    /\ pc = "call" /\ op = "calculateTermination"
    /\ ret' = calculateTermination(args.salary, args.startDate, args.endDate,
                                   args.type, Arg(args, "fgtsBalance", Zero),
                                   Arg(args, "unusedVacationDays", Zero),
                                   Arg(args, "bonuses", Zero))
    /\ pc' = "done"
    /\ UNCHANGED <<op, args, app, events>>

Next ==
    \/ CallINSS
    \/ CallIRRF
    \/ CallSalary
    \/ CallVacation
    \/ CallOvertime
    \/ CallTermination

Spec == Init /\ [][Next]_vars

Returned(o) == pc = "done" /\ op = o

----------------------------------------------------------------------------
(* The contribution table (calculateINSS).                                 *)

\* The documented table of the statutory contribution.
TableINSS(base) ==
    IF Le(base, Cents(141200)) THEN Mul(base, Rat(75, 1000))
    ELSE IF Le(base, Cents(266668))
    THEN Add(Mul(Sub(base, Cents(141200)), Rat(9, 100)), Cents(10590))
    ELSE IF Le(base, Cents(400003))
    THEN Add(Mul(Sub(base, Cents(266668)), Rat(12, 100)), Cents(21882))
    ELSE IF Le(base, Cents(778602))
    THEN Add(Mul(Sub(base, Cents(400003)), Rat(14, 100)), Cents(37882))
    ELSE Cents(90885)

\* C1: for every base >= 0 in whole cents, calculateINSS(base) is the value
\* of the documented piecewise table with inclusive upper bounds; a base on
\* a tier edge is priced by the lower tier.
C1_INSSMatchesTable ==
    Returned("calculateINSS") => ret = TableINSS(args.salary)

\* C1 witness: the base 2666.68, on the edge of tier 2, has been priced by
\* tier 2: (2666.68 - 1412) * 0.09 + 105.90 = 218.8212.
C1_Witness ==
    /\ Returned("calculateINSS")
    /\ args.salary = Cents(266668)
    /\ ret = Rat(2188212, 10000)

\* C2: calculateINSS is exactly 105.90 at 1412.00, 218.82 at 2666.68, 378.82
\* at 4000.03, 908.85 at 7786.02 and 908.85 at 100000.
C2_BoundaryValues ==
    Returned("calculateINSS") =>
        /\ args.salary = Cents(141200) => ret = Cents(10590)
        /\ args.salary = Cents(266668) => ret = Cents(21882)
        /\ args.salary = Cents(400003) => ret = Cents(37882)
        /\ args.salary = Cents(778602) => ret = Cents(90885)
        /\ args.salary = Cents(10000000) => ret = Cents(90885)

\* C3: the contribution never exceeds the ceiling: calculateINSS(base) <=
\* 908.85 for every base >= 0.
C3_Ceiling ==
    Returned("calculateINSS") => Le(ret, Cents(90885))

----------------------------------------------------------------------------
(* The income-tax table (calculateIRRF).                                   *)

\* The number of dependents of the call, 0 when the caller passes none.
DependentsOfCall == IF "dependents" \in DOMAIN args THEN args.dependents ELSE 0

\* taxableBase = salary - inss - dependents * 189.59 of the call.
TaxableBaseOfCall ==
    Sub(Sub(args.salary, args.inss), Rat(DependentsOfCall * 18959, 100))

\* The documented table of the income tax above the exempt tier.
TableIRRF(tb) ==
    IF Le(tb, Cents(282665)) THEN Sub(Mul(tb, Rat(75, 1000)), Cents(16944))
    ELSE IF Le(tb, Cents(375105)) THEN Sub(Mul(tb, Rat(15, 100)), Cents(38144))
    ELSE IF Le(tb, Cents(466468)) THEN Sub(Mul(tb, Rat(225, 1000)), Cents(66277))
    ELSE Sub(Mul(tb, Rat(275, 1000)), Cents(89600))

\* C4: calculateIRRF returns exactly 0 whenever taxableBase = salary - inss -
\* dependents * 189.59 is <= 2259.20, a negative taxableBase and taxableBase
\* = 2259.20 included.
C4_ZeroUpToExemption ==
    (Returned("calculateIRRF") /\ Le(TaxableBaseOfCall, Cents(225920)))
        => ret = Zero

\* C4 witness: a call with dependents whose taxable base is exactly 2259.20
\* has returned 0.
C4_Witness ==
    /\ Returned("calculateIRRF")
    /\ DependentsOfCall > 0
    /\ TaxableBaseOfCall = Cents(225920)
    /\ ret = Zero

\* C5: above 2259.20 calculateIRRF returns the documented affine formula of
\* the tier of taxableBase (inclusive upper bounds 2826.65, 3751.05,
\* 4664.68), each dependent lowers taxableBase by exactly 189.59 and a call
\* without dependents is priced as with 0 dependents.
C5_IRRFMatchesTable ==
    (Returned("calculateIRRF") /\ Lt(Cents(225920), TaxableBaseOfCall))
        => ret = TableIRRF(TaxableBaseOfCall)

\* C5 witness: a call with dependents whose taxable base is exactly 2826.65,
\* the edge of tier 2, has been priced by tier 2: 2826.65 * 0.075 - 169.44.
C5_Witness ==
    /\ Returned("calculateIRRF")
    /\ DependentsOfCall > 0
    /\ TaxableBaseOfCall = Cents(282665)
    /\ ret = Rat(4255875, 100000)

----------------------------------------------------------------------------
(* The salary settlement (calculateSalary).                                *)

\* The other discounts of the call, 0 when the caller passes none.
OtherDiscountsOfCall == IF "otherDiscounts" \in DOMAIN args THEN args.otherDiscounts ELSE Zero

\* C6: the result of calculateSalary satisfies netSalary + inss + irrf +
\* otherDiscounts = grossSalary, discounts = inss + irrf + otherDiscounts and
\* fgts = 0.08 * grossSalary, with inss = calculateINSS(grossSalary) and
\* irrf = calculateIRRF(grossSalary, inss, dependents).
C6_SalaryIdentities ==
    Returned("calculateSalary") =>
        /\ Add(Add(Add(ret.netSalary, ret.inss), ret.irrf), OtherDiscountsOfCall)
             = args.grossSalary
        /\ ret.discounts = Add(OtherDiscountsOfCall, Add(ret.irrf, ret.inss))
        /\ ret.fgts = Div(Mul(Rat(8, 1), args.grossSalary), Rat(100, 1))
        /\ ret.inss = calculateINSS(args.grossSalary)
        /\ ret.irrf = calculateIRRF(args.grossSalary, ret.inss, DependentsOfCall)
        /\ ret.grossSalary = args.grossSalary

\* C6 witness: a settlement with dependents, other discounts and a non-zero
\* income tax has returned.
C6_Witness ==
    /\ Returned("calculateSalary")
    /\ DependentsOfCall > 0
    /\ Lt(Zero, OtherDiscountsOfCall)
    /\ Lt(Zero, ret.irrf)

NonNegative(x) == Le(Zero, x)

\* C7: every monetary field returned by calculateSalary is non-negative for
\* all valid inputs, netSalary included even when otherDiscounts exceeds
\* grossSalary - inss - irrf.
C7_AllFieldsNonNegative ==
    Returned("calculateSalary") =>
        /\ NonNegative(ret.grossSalary)
        /\ NonNegative(ret.inss)
        /\ NonNegative(ret.irrf)
        /\ NonNegative(ret.fgts)
        /\ NonNegative(ret.discounts)
        /\ NonNegative(ret.netSalary)

\* C7 as amended: grossSalary, inss, irrf, fgts and discounts are non-negative
\* for all valid inputs; netSalary is non-negative exactly when otherDiscounts
\* <= grossSalary - inss - irrf, and negative when otherDiscounts exceeds it.
C7_NonNegativeUpToDiscounts ==
    Returned("calculateSalary") =>
        /\ NonNegative(ret.grossSalary)
        /\ NonNegative(ret.inss)
        /\ NonNegative(ret.irrf)
        /\ NonNegative(ret.fgts)
        /\ NonNegative(ret.discounts)
        /\ NonNegative(ret.netSalary) <=>
             Le(OtherDiscountsOfCall,
                Sub(args.grossSalary, Add(ret.inss, ret.irrf)))

\* C7 witness: the other discounts exceed grossSalary - inss - irrf and the
\* returned netSalary is negative.
C7_Witness ==
    /\ Returned("calculateSalary")
    /\ Lt(Sub(args.grossSalary, Add(ret.inss, ret.irrf)), OtherDiscountsOfCall)
    /\ Lt(ret.netSalary, Zero)

----------------------------------------------------------------------------
(* Overtime (calculateOvertime).                                           *)

\* The surcharge percentage of the call, 50 when the caller passes none.
PercentageOfCall == IF "percentage" \in DOMAIN args THEN args.percentage ELSE Rat(50, 1)

\* C8: calculateOvertime returns hourlyRate = salary / monthlyHours,
\* overtimeValue = hourlyRate * (1 + percentage/100) * overtimeHours and
\* totalValue = overtimeValue; percentage defaults to 50; and
\* calculateOvertime(3000, 220, 10, 50) gives overtimeValue = 3000*1.5*10/220.
C8_OvertimeFormula ==
    Returned("calculateOvertime") =>
        /\ Mul(ret.hourlyRate, args.monthlyHours) = args.salary
        /\ ret.overtimeValue =
             Div(Mul(Mul(args.salary, Add(Rat(100, 1), PercentageOfCall)),
                     args.overtimeHours),
                 Mul(Rat(100, 1), args.monthlyHours))
        /\ ret.totalValue = ret.overtimeValue
        /\ (/\ args.salary = Rat(3000, 1)
            /\ args.monthlyHours = Rat(220, 1)
            /\ args.overtimeHours = Rat(10, 1)
            /\ PercentageOfCall = Rat(50, 1))
           => ret.overtimeValue = Rat(45000, 220)

\* C8 witness: calculateOvertime(3000, 220, 10, 50) has returned 204.5454...
\* = 2250/11.
C8_Witness ==
    /\ Returned("calculateOvertime")
    /\ args = [salary |-> Rat(3000, 1), monthlyHours |-> Rat(220, 1),
               overtimeHours |-> Rat(10, 1), percentage |-> Rat(50, 1)]
    /\ ret.overtimeValue = Rat(2250, 11)
    /\ ret.hourlyRate = Rat(150, 11)

----------------------------------------------------------------------------
(* The vacation settlement (calculateVacation).                            *)

\* The arguments of the vacation call, defaults filled in.
VacationDaysOfCall == IF "days" \in DOMAIN args THEN args.days ELSE Rat(30, 1)
SellTenDaysOfCall == IF "sellTenDays" \in DOMAIN args THEN args.sellTenDays ELSE FALSE
UnusedDaysOfCall == IF "unusedVacationDays" \in DOMAIN args THEN args.unusedVacationDays ELSE Zero
BonusesOfCall == IF "bonuses" \in DOMAIN args THEN args.bonuses ELSE Zero

\* dailyRate = (salary + bonuses) / 30 of the call.
DailyRateOfCall == Div(Add(args.salary, BonusesOfCall), Rat(30, 1))

\* C9: passing unusedVacationDays = u > 0 instead of 0, all else fixed,
\* increases grossTotal and netTotal by exactly u * dailyRate * 4/3 and
\* leaves inss and irrf unchanged.
C9_UnusedDaysUntaxed ==
    (Returned("calculateVacation") /\ Lt(Zero, UnusedDaysOfCall)) =>
        LET without == calculateVacation(args.salary, VacationDaysOfCall,
                                         SellTenDaysOfCall, DependentsOfCall,
                                         Zero, BonusesOfCall)
            payout == Div(Mul(Mul(UnusedDaysOfCall, DailyRateOfCall), Rat(4, 1)),
                          Rat(3, 1))
        IN  /\ ret.grossTotal = Add(without.grossTotal, payout)
            /\ ret.netTotal = Add(without.netTotal, payout)
            /\ ret.inss = without.inss
            /\ ret.irrf = without.irrf

\* C9 witness: a vacation with 15 unused days and a taxed current period
\* (non-zero inss and irrf) has returned.
C9_Witness ==
    /\ Returned("calculateVacation")
    /\ UnusedDaysOfCall = Rat(15, 1)
    /\ Lt(Zero, ret.inss)
    /\ Lt(Zero, ret.irrf)

\* C10: with sellTenDays the result has abonoPecuniario = dailyRate * 10 and
\* abonoOneThird = abonoPecuniario / 3, whatever the days, both added untaxed
\* to grossTotal and netTotal with inss and irrf as for sellTenDays = false;
\* without sellTenDays both fields are present with value 0.
C10_SoldDaysAllowance ==
    Returned("calculateVacation") =>
        /\ {"abonoPecuniario", "abonoOneThird"} \subseteq DOMAIN ret
        /\ IF SellTenDaysOfCall
           THEN LET unsold == calculateVacation(args.salary, VacationDaysOfCall,
                                                FALSE, DependentsOfCall,
                                                UnusedDaysOfCall, BonusesOfCall)
                    abono == Mul(Rat(10, 1), DailyRateOfCall)
                    third == Div(abono, Rat(3, 1))
                IN  /\ ret.abonoPecuniario = abono
                    /\ ret.abonoOneThird = third
                    /\ ret.grossTotal = Add(unsold.grossTotal, Add(abono, third))
                    /\ ret.netTotal = Add(unsold.netTotal, Add(abono, third))
                    /\ ret.inss = unsold.inss
                    /\ ret.irrf = unsold.irrf
           ELSE /\ ret.abonoPecuniario = Zero
                /\ ret.abonoOneThird = Zero

\* C10 witness: 10 days sold on a 7-day vacation of a 3000 salary: the
\* allowance is 1000 (10 days), its third 333.33..., and the period is taxed.
C10_Witness ==
    /\ Returned("calculateVacation")
    /\ SellTenDaysOfCall
    /\ args.salary = Rat(3000, 1) /\ BonusesOfCall = Zero
    /\ VacationDaysOfCall = Rat(7, 1)
    /\ ret.abonoPecuniario = Rat(1000, 1)
    /\ ret.abonoOneThird = Rat(1000, 3)


\* C11: for all valid inputs of calculateVacation, unusedVacationDays > 0
\* included, the returned vacationValue equals dailyRate * days and the
\* returned oneThirdBonus equals vacationValue / 3, with dailyRate = (salary +
\* bonuses) / 30; calculateVacation(3000, 30, false, 0, 0, 0) returns
\* vacationValue = 3000 and oneThirdBonus = 1000, taxed on 4000.
C11_VacationValueOfDays ==
    Returned("calculateVacation") =>
        LET current == Mul(DailyRateOfCall, VacationDaysOfCall)
        IN  /\ ret.vacationValue = current
            /\ ret.oneThirdBonus = Div(current, Rat(3, 1))
            /\ (/\ args.salary = Rat(3000, 1) /\ BonusesOfCall = Zero
                /\ VacationDaysOfCall = Rat(30, 1) /\ UnusedDaysOfCall = Zero
                /\ ~SellTenDaysOfCall /\ DependentsOfCall = 0)
               => /\ ret.vacationValue = Rat(3000, 1)
                  /\ ret.oneThirdBonus = Rat(1000, 1)
                  /\ ret.inss = calculateINSS(Rat(4000, 1))
                  /\ ret.irrf = calculateIRRF(Rat(4000, 1), ret.inss, 0)


----------------------------------------------------------------------------
(* The termination settlement (calculateTermination).                      *)

\* The fund balance of the call, 0 when the caller passes none.
FgtsBalanceOfCall == IF "fgtsBalance" \in DOMAIN args THEN args.fgtsBalance ELSE Zero

\* base = salary + bonuses of the call.
BaseOfCall == Add(args.salary, BonusesOfCall)

\* C12: notice period and fund penalty follow the type alone, with base =
\* salary + bonuses: 'sem-justa-causa' gives noticePeriod = base and fgtsFine
\* = 0.4 * fgtsBalance (2000 for a balance of 5000); 'comum-acordo' gives 0.5 *
\* base and 0.2 * fgtsBalance; 'com-justa-causa' and 'pedido-demissao' give 0
\* and 0 whatever the balance.
C12_IndemnitiesByType ==
    Returned("calculateTermination") =>
        /\ args.type = "sem-justa-causa" =>
             /\ ret.noticePeriod = BaseOfCall
             /\ ret.fgtsFine = Div(Mul(Rat(40, 1), FgtsBalanceOfCall), Rat(100, 1))
             /\ FgtsBalanceOfCall = Rat(5000, 1) => ret.fgtsFine = Rat(2000, 1)
        /\ args.type = "comum-acordo" =>
             /\ ret.noticePeriod = Div(BaseOfCall, Rat(2, 1))
             /\ ret.fgtsFine = Div(FgtsBalanceOfCall, Rat(5, 1))
        /\ args.type \in {"com-justa-causa", "pedido-demissao"} =>
             /\ ret.noticePeriod = Zero
             /\ ret.fgtsFine = Zero

\* C12 witness: a mutual-agreement termination with a fund balance of 5000 has
\* returned a fine of 1000 and half the base as notice period.
C12_Witness ==
    /\ Returned("calculateTermination")
    /\ args.type = "comum-acordo"
    /\ FgtsBalanceOfCall = Rat(5000, 1)
    /\ BaseOfCall = Rat(3500, 1)
    /\ ret.fgtsFine = Rat(1000, 1)
    /\ ret.noticePeriod = Rat(1750, 1)


\* C13: inss = calculateINSS(salaryBalance + proportionalThirteenth) and irrf
\* = calculateIRRF(salaryBalance + proportionalThirteenth, inss, 0); for fixed
\* salary, bonuses, startDate and endDate, changing type, fgtsBalance or
\* unusedVacationDays never changes inss or irrf (every call has the inss and
\* irrf of the call with the same salary, bonuses and dates, just cause, no
\* fund balance and no unused days, so any two such calls agree); netTotal =
\* grossTotal - inss - irrf.
C13_TaxOnBalanceAndThirteenth ==
    Returned("calculateTermination") =>
        LET taxed == Add(ret.proportionalThirteenth, ret.salaryBalance)
        IN  /\ ret.inss = calculateINSS(taxed)
            /\ ret.irrf = calculateIRRF(taxed, ret.inss, 0)
            /\ Add(Add(ret.netTotal, ret.irrf), ret.inss) = ret.grossTotal
            /\ LET plain == calculateTermination(args.salary, args.startDate,
                                                   args.endDate, "com-justa-causa",
                                                   Zero, Zero, BonusesOfCall)
               IN  plain.inss = ret.inss /\ plain.irrf = ret.irrf

\* C13 witness: a termination without just cause, with a fund balance and
\* unused days, whose salary balance and 13th salary are taxed (non-zero inss
\* and irrf), has returned.
C13_Witness ==
    /\ Returned("calculateTermination")
    /\ args.type = "sem-justa-causa"
    /\ Lt(Zero, FgtsBalanceOfCall)
    /\ Lt(Zero, UnusedDaysOfCall)
    /\ Lt(Zero, ret.inss)
    /\ Lt(Zero, ret.irrf)

\* C14: grossTotal is the sum of exactly eight components: salary balance,
\* proportional 13th, proportional vacation, its third, unused-vacation payout
\* (base/30 * unusedVacationDays), its third, notice period and fgts fine;
\* equivalently the sum of the six returned fields salaryBalance +
\* proportionalThirteenth + proportionalVacation + vacationOneThird +
\* noticePeriod + fgtsFine.
C14_GrossTotalComponents ==
    Returned("calculateTermination") =>
        LET vacation == Mul(Div(BaseOfCall, Rat(12, 1)),
                            Rem(finalVacationMonths(args.startDate, args.endDate),
                                Rat(12, 1)))
            unused == Div(Mul(BaseOfCall, UnusedDaysOfCall), Rat(30, 1))
            withThirds == Div(Mul(Rat(4, 1), Add(vacation, unused)), Rat(3, 1))
        IN  /\ ret.grossTotal =
                 Add(Add(Add(Add(ret.salaryBalance, ret.proportionalThirteenth),
                             withThirds), ret.noticePeriod), ret.fgtsFine)
            /\ ret.grossTotal =
                 Add(ret.fgtsFine,
                     Add(ret.noticePeriod,
                         Add(ret.vacationOneThird,
                             Add(ret.proportionalVacation,
                                 Add(ret.proportionalThirteenth, ret.salaryBalance)))))

\* C14 witness: a termination with unused days, proportional vacation, notice
\* period and fund penalty all non-zero has returned.
C14_Witness ==
    /\ Returned("calculateTermination")
    /\ Lt(Zero, UnusedDaysOfCall)
    /\ Lt(Zero, ret.noticePeriod)
    /\ Lt(Zero, ret.fgtsFine)
    /\ Lt(Zero, ret.proportionalThirteenth)
    /\ Lt(Mul(Div(BaseOfCall, Rat(30, 1)), UnusedDaysOfCall), ret.proportionalVacation)

----------------------------------------------------------------------------
(* The month counts of calculateTermination.                                *)

\* The calendar rule of the 13th salary on the calendar fields of the call's
\* dates (months counted from 1): the count before and after the clamp.
CalendarMonthsOfCall ==
    LET ys == args.startDate.year.w
        ms == args.startDate.month.w + 1
        ds == args.startDate.date.w
        ye == args.endDate.year.w
        me == args.endDate.month.w + 1
        de == args.endDate.date.w
    IN  IF ye = ys
        THEN (me - ms) + (IF ds <= 15 THEN 1 ELSE 0) - (IF de < 15 THEN 1 ELSE 0)
        ELSE IF de >= 15 THEN me ELSE me - 1

ClampedMonthsOfCall == IF CalendarMonthsOfCall < 0 THEN 0 ELSE CalendarMonthsOfCall

ElapsedDaysOfCall ==
    LET hs == args.startDate.time.w
        he == args.endDate.time.w
        hours == IF he >= hs THEN he - hs ELSE hs - he
    IN  (hours + 23) \div 24

\* (floor(D/30) + (1 if D mod 30 >= 15 else 0)) mod 12
VacationMonthsOfCall ==
    ((ElapsedDaysOfCall \div 30) + (IF ElapsedDaysOfCall % 30 >= 15 THEN 1 ELSE 0)) % 12

C17_ProportionalVacationOfMonths ==
    Returned("calculateTermination") =>
        /\ ret.proportionalVacation
              = Mul(Div(BaseOfCall, Rat(12, 1)),
                    Rem(finalVacationMonths(args.startDate, args.endDate), Rat(12, 1)))
        /\ ret.vacationOneThird = Div(ret.proportionalVacation, Rat(3, 1))

----------------------------------------------------------------------------
(* The presentation layer (App.tsx).  A text is the sequence of its        *)
(* characters; a form field of type number | string holds a number or      *)
(* [text |-> t]; the value of a date input is <<>> when the field is empty *)
(* and <<year, month, day>> for 'YYYY-MM-DD'.                              *)

Digits == {"0", "1", "2", "3", "4", "5", "6", "7", "8", "9"}

DigitValue(c) ==
    CASE c = "0" -> 0 [] c = "1" -> 1 [] c = "2" -> 2 [] c = "3" -> 3
      [] c = "4" -> 4 [] c = "5" -> 5 [] c = "6" -> 6 [] c = "7" -> 7
      [] c = "8" -> 8 [] c = "9" -> 9

RECURSIVE DigitsValue(_)
\* The integer a sequence of digits writes (0 for no digit).
DigitsValue(s) ==
    IF s = <<>> THEN 0
    ELSE DigitsValue(SubSeq(s, 1, Len(s) - 1)) * 10 + DigitValue(s[Len(s)])

RECURSIVE PowerOfTen(_)
PowerOfTen(k) == IF k = 0 THEN 1 ELSE 10 * PowerOfTen(k - 1)

\* Number(text) of an unsigned decimal literal: digits with at most one point
\* and at least one digit; NaN for any other text.
UnsignedNumber(s) ==
    LET points == {i \in 1..Len(s) : s[i] = "."}
    IN  IF \E i \in 1..Len(s) : s[i] \notin Digits \cup {"."} THEN NaN
        ELSE IF Cardinality(points) > 1 \/ Len(s) = Cardinality(points) THEN NaN
        ELSE IF points = {} THEN Rat(DigitsValue(s), 1)
        ELSE LET p == CHOOSE i \in points : TRUE
                 fraction == SubSeq(s, p + 1, Len(s))
             IN  Add(Rat(DigitsValue(SubSeq(s, 1, p - 1)), 1),
                     Rat(DigitsValue(fraction), PowerOfTen(Len(fraction))))

\* Number(text): the empty text is 0, a decimal literal with an optional sign
\* is its value, any other text is NaN.
StringToNumber(text) ==
    IF text = <<>> THEN Zero
    ELSE IF Head(text) = "-" THEN Neg(UnsignedNumber(Tail(text)))
    ELSE IF Head(text) = "+" THEN UnsignedNumber(Tail(text))
    ELSE UnsignedNumber(text)

\* Number(val) of a number | string
Number(val) == IF "text" \in DOMAIN val THEN StringToNumber(val.text) ELSE val

\* parseSafe, App.tsx:64-67
parseSafe(val) ==
    LET n == Number(val)
    IN  IF IsNaN(n) \/ Lt(n, Zero) THEN Zero ELSE n

\* Variant of LogicalOr that keeps its left operand (no fallback).
LogicalOr_left(a, b) == a

\* a || b on numbers: b when a is 0 or NaN
LogicalOr(a, b) == IF IsNaN(a) \/ a = Zero THEN b ELSE a

\* new Date(text) of the value of a date input: Invalid Date for the empty
\* text, else midnight of that day (calendar fields read in the zone UTC).
NewDate(text) ==
    IF text = <<>> THEN InvalidDate ELSE LocalDate(text[1], text[2], text[3], 0)

\* The number of change events of a session of the form.
MaxEvents == 3

\* Texts a change event of a number input carries: empty, non-numeric,
\* negative, and accepted numbers.
InputTexts == {<<>>, <<"a", "b", "c">>, <<"-", "5">>, <<"0">>, <<"7", ".", "5">>}

\* Values a change event of a date input carries: the cleared field and dates.
ValidDateTexts == {<<2023, 1, 1>>, <<2024, 2, 29>>}
DateTexts == {<<>>} \cup ValidDateTexts

\* <option> values of the overtime percentage, App.tsx:268-272
PercentOptions == {Rat(50, 1), Rat(100, 1)}

\* Positions of the vacation-days slider (min 1, max 30).
RangeValues == {Rat(1, 1), Rat(30, 1)}

\* The state hooks of App with their initial values, App.tsx:40-61; the
\* initial endDate is the day App is mounted.
AppInitial(today) ==
    [grossSalary |-> Rat(3500, 1),
     dependents |-> Zero,
     otherDiscounts |-> Zero,
     bonuses |-> Zero,
     monthlyHours |-> Rat(220, 1),
     overtimeHours |-> Rat(10, 1),
     overtimePercent |-> Rat(50, 1),
     vacationDays |-> Rat(30, 1),
     sellTenDays |-> FALSE,
     unusedVacationDays |-> Zero,
     terminationType |-> "sem-justa-causa",
     startDate |-> <<2023, 1, 1>>,
     endDate |-> today,
     fgtsBalance |-> Rat(5000, 1)]

\* The arguments of the four engine calls of a render, App.tsx:69-95
SalaryArgs ==
    [grossSalary |-> Add(parseSafe(app.grossSalary), parseSafe(app.bonuses)),
     dependents |-> parseSafe(app.dependents),
     otherDiscounts |-> parseSafe(app.otherDiscounts)]

OvertimeArgs ==
    [salary |-> parseSafe(app.grossSalary),
     monthlyHours |-> LogicalOr(parseSafe(app.monthlyHours), Rat(1, 1)),
     overtimeHours |-> parseSafe(app.overtimeHours),
     percentage |-> app.overtimePercent]

VacationArgs ==
    [salary |-> parseSafe(app.grossSalary),
     days |-> app.vacationDays,
     sellTenDays |-> app.sellTenDays,
     dependents |-> parseSafe(app.dependents),
     unusedVacationDays |-> parseSafe(app.unusedVacationDays),
     bonuses |-> parseSafe(app.bonuses)]

TerminationArgs ==
    [salary |-> parseSafe(app.grossSalary),
     startDate |-> NewDate(app.startDate),
     endDate |-> NewDate(app.endDate),
     type |-> app.terminationType,
     fgtsBalance |-> parseSafe(app.fgtsBalance),
     unusedVacationDays |-> parseSafe(app.unusedVacationDays),
     bonuses |-> parseSafe(app.bonuses)]

\* terminationResult of a render, App.tsx:84-95
terminationResult ==
    calculateTermination(TerminationArgs.salary, TerminationArgs.startDate,
                         TerminationArgs.endDate, TerminationArgs.type,
                         TerminationArgs.fgtsBalance,
                         TerminationArgs.unusedVacationDays,
                         TerminationArgs.bonuses)

InitApp ==
    /\ pc = "mounted"
    /\ op = "App"
    /\ args = NoApp
    /\ ret = NoRet
    /\ \E today \in ValidDateTexts : app = AppInitial(today)
    /\ events = 0

\* handleNumberInput(setter) on a change event carrying text, App.tsx:101-109
handleNumberInput(field, text) ==
    /\ pc = "mounted" /\ events < MaxEvents
    /\ IF text = <<>>
       THEN app' = [app EXCEPT ![field] = [text |-> <<>>]]
       ELSE LET n == StringToNumber(text)
            IN  IF Ge(n, Zero)
                THEN app' = [app EXCEPT ![field] = n]
                ELSE app' = app
    /\ events' = events + 1
    /\ UNCHANGED <<pc, op, args, ret>>

ChangeGrossSalary == \E text \in InputTexts : handleNumberInput("grossSalary", text)
ChangeDependents == \E text \in InputTexts : handleNumberInput("dependents", text)
ChangeBonuses == \E text \in InputTexts : handleNumberInput("bonuses", text)
ChangeOtherDiscounts == \E text \in InputTexts : handleNumberInput("otherDiscounts", text)
ChangeMonthlyHours == \E text \in InputTexts : handleNumberInput("monthlyHours", text)
ChangeOvertimeHours == \E text \in InputTexts : handleNumberInput("overtimeHours", text)
ChangeUnusedVacationDays == \E text \in InputTexts : handleNumberInput("unusedVacationDays", text)
ChangeFgtsBalance == \E text \in InputTexts : handleNumberInput("fgtsBalance", text)

\* The inputs that set their state without handleNumberInput.
ChangeOvertimePercent ==
    /\ pc = "mounted" /\ events < MaxEvents
    /\ \E v \in PercentOptions : app' = [app EXCEPT !.overtimePercent = v]
    /\ events' = events + 1
    /\ UNCHANGED <<pc, op, args, ret>>

ChangeVacationDays ==
    /\ pc = "mounted" /\ events < MaxEvents
    /\ \E v \in RangeValues : app' = [app EXCEPT !.vacationDays = v]
    /\ events' = events + 1
    /\ UNCHANGED <<pc, op, args, ret>>

ToggleSellTenDays ==
    /\ pc = "mounted" /\ events < MaxEvents
    /\ app' = [app EXCEPT !.sellTenDays = ~app.sellTenDays]
    /\ events' = events + 1
    /\ UNCHANGED <<pc, op, args, ret>>

ChangeTerminationType ==
    /\ pc = "mounted" /\ events < MaxEvents
    /\ \E v \in TerminationTypes : app' = [app EXCEPT !.terminationType = v]
    /\ events' = events + 1
    /\ UNCHANGED <<pc, op, args, ret>>

ChangeStartDate ==
    /\ pc = "mounted" /\ events < MaxEvents
    /\ \E text \in DateTexts : app' = [app EXCEPT !.startDate = text]
    /\ events' = events + 1
    /\ UNCHANGED <<pc, op, args, ret>>

ChangeEndDate ==
    /\ pc = "mounted" /\ events < MaxEvents
    /\ \E text \in DateTexts : app' = [app EXCEPT !.endDate = text]
    /\ events' = events + 1
    /\ UNCHANGED <<pc, op, args, ret>>

NextApp ==
    \/ ChangeGrossSalary
    \/ ChangeDependents
    \/ ChangeBonuses
    \/ ChangeOtherDiscounts
    \/ ChangeMonthlyHours
    \/ ChangeOvertimeHours
    \/ ChangeOvertimePercent
    \/ ChangeVacationDays
    \/ ChangeUnusedVacationDays
    \/ ToggleSellTenDays
    \/ ChangeTerminationType
    \/ ChangeStartDate
    \/ ChangeEndDate
    \/ ChangeFgtsBalance

SpecApp == InitApp /\ [][NextApp]_vars

\* A validated number: neither NaN nor negative.
Validated(x) == ~IsNaN(x) /\ Ge(x, Zero)

\* C18: after any sequence of input-change events carrying arbitrary text
\* (empty, negative, non-numeric), every numeric argument App passes through
\* parseSafe to calculateSalary, calculateVacation, calculateOvertime and
\* calculateTermination is neither NaN nor negative, and the monthlyHours
\* argument of calculateOvertime is never 0.
C18_ValidatedNumbers ==
    pc = "mounted" =>
        /\ Validated(SalaryArgs.grossSalary)
        /\ Validated(SalaryArgs.dependents)
        /\ Validated(SalaryArgs.otherDiscounts)
        /\ Validated(OvertimeArgs.salary)
        /\ Validated(OvertimeArgs.monthlyHours)
        /\ OvertimeArgs.monthlyHours # Zero
        /\ Validated(OvertimeArgs.overtimeHours)
        /\ Validated(VacationArgs.salary)
        /\ Validated(VacationArgs.dependents)
        /\ Validated(VacationArgs.unusedVacationDays)
        /\ Validated(VacationArgs.bonuses)
        /\ Validated(TerminationArgs.salary)
        /\ Validated(TerminationArgs.fgtsBalance)
        /\ Validated(TerminationArgs.unusedVacationDays)
        /\ Validated(TerminationArgs.bonuses)

\* C18 witness: the salary field was cleared and the monthly-hours field set
\* to 0; App passes salary 0 and monthlyHours 1 to calculateOvertime.
C18_Witness ==
    /\ pc = "mounted"
    /\ app.grossSalary = [text |-> <<>>]
    /\ app.monthlyHours = Zero
    /\ OvertimeArgs.salary = Zero
    /\ OvertimeArgs.monthlyHours = Rat(1, 1)

\* C19: after any sequence of change events on the start-date and end-date
\* inputs (clearing a field included), the startDate and endDate passed to
\* calculateTermination are valid dates, so no field of the termination result
\* is NaN.
C19_WellFormedDates ==
    pc = "mounted" =>
        /\ ~IsNaN(getTime(TerminationArgs.startDate))
        /\ ~IsNaN(getTime(TerminationArgs.endDate))
        /\ \A f \in DOMAIN terminationResult : ~IsNaN(terminationResult[f])

----------------------------------------------------------------------------
(* Monotonicity of the contribution.                                       *)

\* C20: calculateINSS is monotonically non-decreasing: for any two bases in
\* whole cents with 0 <= b1 < b2, calculateINSS(b1) <= calculateINSS(b2), the
\* tier boundaries 1412.00, 2666.68, 4000.03 and 7786.02 included.
C20_INSSMonotonic ==
    Returned("calculateINSS") =>
        \A b2 \in INSSBases :
            Lt(args.salary, Cents(b2)) => Le(ret, calculateINSS(Cents(b2)))

----------------------------------------------------------------------------
(* Bounds on the results.                                                  *)

\* The taxable base calculateSalary hands to the income-tax table for a gross
\* salary and the dependents of the call.
SalaryTaxableBase(gross) ==
    Sub(Sub(gross, calculateINSS(gross)), Rat(DependentsOfCall * 18959, 100))

\* C21: a raise never lowers net pay: for any two gross salaries in whole
\* cents with 0 <= g1 < g2 and the same dependents and otherDiscounts,
\* netSalary of g1 <= netSalary of g2, also when g1 and g2 straddle an INSS
\* or IRRF tier boundary.
C21_RaiseNeverLowersNet ==
    Returned("calculateSalary") =>
        \A g2 \in SalaryGross :
            Lt(args.grossSalary, Cents(g2)) =>
                Le(ret.netSalary,
                   calculateSalary(Cents(g2), DependentsOfCall,
                                   OtherDiscountsOfCall).netSalary)

\* C21 witness: calculateSalary has returned for a gross salary whose taxable
\* base is still in the 22.5% tier while one cent more is taxed at 27.5%, and
\* the net pay of the higher salary is the larger one.
C21_Witness ==
    /\ Returned("calculateSalary")
    /\ LET g2 == Add(args.grossSalary, Cents(1))
       IN  /\ \E c \in SalaryGross : g2 = Cents(c)
           /\ Le(SalaryTaxableBase(args.grossSalary), Cents(466468))
           /\ Lt(Cents(466468), SalaryTaxableBase(g2))
           /\ Lt(ret.netSalary,
                 calculateSalary(g2, DependentsOfCall, OtherDiscountsOfCall).netSalary)

\* C22: calculateIRRF never returns a negative amount: for every salary >= 0,
\* inss >= 0 and dependents >= 0 the result is >= 0, taxable bases just above
\* each tier's lower edge (2259.20, 2826.65, 3751.05, 4664.68) included,
\* though no tier clamps its formula at zero.
C22_IRRFNonNegative ==
    /\ (/\ Returned("calculateIRRF")
        /\ Le(Zero, args.salary) /\ Le(Zero, args.inss) /\ DependentsOfCall >= 0)
       => Le(Zero, ret)
    /\ Returned("calculateSalary") => Le(Zero, ret.irrf)

\* C22 witness: calculateIRRF has returned for a taxable base one cent above
\* the exemption, with a tax above zero and below one cent.
C22_Witness ==
    /\ Returned("calculateIRRF")
    /\ TaxableBaseOfCall = Cents(225921)
    /\ Lt(Zero, ret)
    /\ Lt(ret, Cents(1))

\* C23: the 13th-salary month count is within 0..12 for every pair of valid
\* dates (same year or different years, in either order), so
\* proportionalThirteenth is never negative and never exceeds one month's
\* base (salary + bonuses).
C23_ThirteenthWithinAYear ==
    Returned("calculateTermination") =>
        LET months == thirteenthMonths(args.startDate, args.endDate)
        IN  /\ Le(Zero, months) /\ Le(months, Rat(12, 1))
            /\ Le(Zero, ret.proportionalThirteenth)
            /\ Le(ret.proportionalThirteenth, BaseOfCall)

\* C23 witness: a termination on 31 December of the year that started on 1
\* January has returned a 13th salary of twelve months, the whole base.
C23_Witness ==
    /\ Returned("calculateTermination")
    /\ getFullYear(args.startDate) = getFullYear(args.endDate)
    /\ getMonth(args.startDate) = Zero /\ getDate(args.startDate) = Rat(1, 1)
    /\ getMonth(args.endDate) = Rat(11, 1) /\ getDate(args.endDate) = Rat(31, 1)
    /\ thirteenthMonths(args.startDate, args.endDate) = Rat(12, 1)
    /\ Lt(Zero, BaseOfCall)
    /\ ret.proportionalThirteenth = BaseOfCall

\* C24: the salary balance never exceeds one month's base: for every valid
\* endDate, salaryBalance = (base/30) * dayOfMonth(endDate) <= base = salary +
\* bonuses, an endDate on the 31st of a month included.
C24_SalaryBalanceWithinBase ==
    Returned("calculateTermination") =>
        /\ ret.salaryBalance = Mul(Div(BaseOfCall, Rat(30, 1)), getDate(args.endDate))
        /\ Le(ret.salaryBalance, BaseOfCall)

====
